---- MODULE Spec2Model ----
(***************************************************************************)
(* URL shortener backend (labs/lab01-vibe-coding-intro/backend):           *)
(*   cache.py  URLCache: a lock-protected cachetools.LRUCache with         *)
(*             hit/miss counters;                                          *)
(*   main.py   check_rate_limit (sliding-window log per client),           *)
(*             generate_short_code / code_exists, validate_custom_code,    *)
(*             get_original_url (cache-then-store lookup), shorten_url,    *)
(*             delete_url.                                                 *)
(* Short codes and custom codes are sequences of one-character strings.    *)
(* Times are integer ticks, TicksPerSecond ticks to the second, so that    *)
(* the truncation int(...) of main.py:60 is visible.                       *)
(***************************************************************************)
EXTENDS Integers, Sequences, FiniteSets, TLC

VARIABLES
    cache,        \* URLCache.cache: the LRUCache, <<key, value>> pairs, least recently used first
    hits,         \* URLCache.hits
    misses,       \* URLCache.misses
    max_size,     \* LRUCache.maxsize (CACHE_SIZE)
    last_access,  \* history: key -> value of op_clock at its most recent Get-hit or Set (0: never)
    op_clock,     \* history: number of operations applied (with threads: calls started)
    last,         \* history: the operation that produced this state and what it returned
    urls,         \* the urls table: rows [short_code, original_url, is_custom] in rowid order
    hist,         \* history: what has happened so far (see NoHist)
    rate_limit_tracker,   \* main.py:42, client address -> list of request times (ticks)
    RATE_LIMIT_REQUESTS,  \* main.py:43, from the environment
    RATE_LIMIT_WINDOW,    \* main.py:44, seconds, from the environment
    now,          \* the clock current_time() reads, in ticks; it never runs backwards
    rl,           \* history: the check_rate_limit call that produced this state and its
                  \*          decision (NoCheck after a tick of the clock)
    admitted,     \* history: client address -> times of its admitted requests that are
                  \*          at most a window old
    retry_at,     \* history: client address -> the instants "rejection time +
                  \*          retry_after" still to come of its rejections since its
                  \*          last admission
    thr           \* thread -> the call it is executing: its position and its locals

vars == <<cache, hits, misses, max_size, last_access, op_clock, last, urls, hist,
          rate_limit_tracker, RATE_LIMIT_REQUESTS, RATE_LIMIT_WINDOW, now, rl,
          admitted, retry_at, thr>>

cacheVars == <<cache, hits, misses, max_size>>
storeVars == <<urls>>
rateVars == <<rate_limit_tracker, RATE_LIMIT_REQUESTS, RATE_LIMIT_WINDOW, now, rl,
              admitted, retry_at>>

----------------------------------------------------------------------------
(* Bounds of the model *)

MaxCap == 2        \* capacities 1..MaxCap are explored
MaxOps == 4        \* cache operations per behaviour of SpecCache
MaxReq == 5        \* requests per behaviour of Spec
MaxDraw == 2       \* random.choices draws among the first MaxDraw symbols of the alphabet
MaxLimit == 2      \* RATE_LIMIT_REQUESTS is 1..MaxLimit
MaxWindow == 1     \* RATE_LIMIT_WINDOW is 1..MaxWindow seconds
NumThreads == 2    \* threads calling into the module at once
MaxCalls == 3      \* calls started per behaviour of the specifications with threads
MaxHttp == 3       \* requests per behaviour of SpecHttp
MaxVary == 3       \* positions of a drawn code that vary
MaxStrLen == 3     \* validate_custom_code is applied to every string up to this length
                   \* over SampleChars (and to longer ones, see ValidateInputs)

----------------------------------------------------------------------------
(* Values *)

None == "None"                     \* Python's None
NOT_FOUND == "__NOT_FOUND__"       \* the negative-cache sentinel of main.py
URL1 == "https://example.com/first"
URL2 == "https://example.com/second"
URLs == {URL1, URL2}

CodeA == <<"a", "a", "a", "a", "a", "a">>
CodeB == <<"a", "a", "a", "a", "a", "b">>
Promo == <<"p", "r", "o", "m", "o", "1">>
Other == <<"x", "y", "z">>
Keys == {CodeA, CodeB, Promo}

\* the keys of SpecCache: one more than the largest capacity
KeySeq == <<CodeA, CodeB, Promo, Other>>
CacheKeys == {KeySeq[i] : i \in 1..(MaxCap + 1)}

Range(f) == {f[i] : i \in DOMAIN f}

\* An Optional[str] that is None is the one-element tuple <<None>>; a str is the
\* tuple of its characters
NoneStr == <<None>>

\* hit_rate of URLCache.stats: the int 0, or the quotient num / den of two ints
\* (a float)
NoRate == [num |-> 0, den |-> 1, is_int |-> TRUE]

\* the dictionary URLCache.stats returns, without its timestamp
NoStats == [size |-> 0, max_size |-> 0, hits |-> 0, misses |-> 0, hit_rate |-> NoRate]

NoSnap == [cache |-> <<>>, hits |-> 0, misses |-> 0, max_size |-> 0]

\* op: the operation; key: its short code (or the code it returned); ret: the
\* value returned; exc: the exception raised; status: the HTTP status;
\* queried: get_original_url ran its SELECT; stats: what URLCache.stats returned;
\* present: the key of a get, set or invalidate was in the cache when it was called
NoOp == [op |-> "init", present |-> FALSE, queried |-> FALSE, stats |-> NoStats, key |-> <<>>, ret |-> None, exc |-> None, status |-> None]

\* client addresses
IPs == {"10.0.0.1", "10.0.0.2"}

\* resolution of the clock: ticks to the second
TicksPerSecond == 2

\* the last instant of the clock in a behaviour: room for a rejection and the
\* retry it announces, one second after the longest window
MaxTime == (MaxWindow + 2) * TicksPerSecond

\* retried: the call was made at an instant a rejection had announced for a retry
NoCheck == [ip |-> None, allowed |-> TRUE, retry_after |-> 0, at |-> 0, exc |-> None,
            retried |-> FALSE]

\* the locals of a thread that is in no call
\* clean: in get_original_url, no shorten_url or delete_url call was in progress
\* when the call began and none has begun since; in generate_short_code, a
\* candidate has been discarded
\* op: the URLCache method called; snap: the URLCache object as it was when the
\* call took self.lock; stats: the dictionary URLCache.stats is building
Idle == [pc |-> "idle", ip |-> None, t |-> 0, kept |-> <<>>,
         code |-> <<>>, url |-> None, custom_code |-> NoneStr, result |-> None,
         clean |-> FALSE, op |-> "none", snap |-> NoSnap, stats |-> NoStats]

Threads == 1..NumThreads

\* neg_then_created: codes whose cached NOT_FOUND marker a creation invalidated
\* pos_then_deleted: codes whose cached URL a deletion invalidated
\* queries: short code -> SELECTs get_original_url has run for it since the code
\*          was last out of the cache (kept by the request handlers)
\* found, absent: URLCache.get calls that found / did not find their key, since
\*          construction or the most recent URLCache.clear
\* cleared: URLCache.clear has been called
NoHist == [neg_then_created |-> {}, pos_then_deleted |-> {},
           queries |-> [k \in Keys |-> 0], found |-> 0, absent |-> 0, cleared |-> FALSE]

\* history of a URLCache.get(key) call on the cache c
HistGet(h, c, key) ==
    IF \E i \in 1..Len(c) : c[i][1] = key
    THEN [h EXCEPT !.found = @ + 1]
    ELSE [h EXCEPT !.absent = @ + 1]

\* history of a URLCache.clear call
HistClear(h) == [h EXCEPT !.found = 0, !.absent = 0, !.cleared = TRUE]

\* history of a request that leaves the cache c, having run the SELECT of
\* get_original_url for code if queried
HistQueries(h, c, code, queried) ==
    [h EXCEPT !.queries =
        [k \in Keys |-> IF \E i \in 1..Len(c) : c[i][1] = k
                        THEN @[k] + (IF queried /\ k = code THEN 1 ELSE 0)
                        ELSE 0]]

----------------------------------------------------------------------------
(* cachetools.LRUCache, as URLCache uses it *)

lru_contains(c, key) == \E i \in 1..Len(c) : c[i][1] = key

lru_index(c, key) == CHOOSE i \in 1..Len(c) : c[i][1] = key

lru_value(c, key) == c[lru_index(c, key)][2]

lru_remove(c, key) == SelectSeq(c, LAMBDA e : e[1] # key)

\* mutant: a read does not refresh the recency of the key
lru_touch_unmoved(c, key) == c

\* LRUCache.__getitem__: the value; the key becomes the most recently used
lru_touch(c, key) == Append(lru_remove(c, key), <<key, lru_value(c, key)>>)

\* mutant: nothing is evicted
lru_evict_nothing(c, maxsize) == c

\* Cache.__setitem__'s loop "while currsize + size > maxsize: popitem()";
\* LRUCache.popitem removes the first key of the recency order
RECURSIVE lru_evict(_, _)
lru_evict(c, maxsize) ==
    IF Len(c) + 1 > maxsize /\ Len(c) > 0
    THEN lru_evict(Tail(c), maxsize)
    ELSE c

\* Cache.__setitem__ raises ValueError("value too large") when 1 > maxsize
lru_set_raises(maxsize) == 1 > maxsize

\* mutant: room is made also for a key that is there already
lru_setitem_always_evicts(c, key, value, maxsize) ==
    Append(lru_remove(lru_evict(c, maxsize), key), <<key, value>>)

\* LRUCache.__setitem__: evict for a new key, store, make the key most recently used
lru_setitem(c, key, value, maxsize) ==
    IF lru_set_raises(maxsize) THEN c
    ELSE IF lru_contains(c, key)
         THEN Append(lru_remove(c, key), <<key, value>>)
         ELSE Append(lru_evict(c, maxsize), <<key, value>>)

\* Cache.pop(key, None)
lru_pop(c, key) == lru_remove(c, key)

lru_keys(c) == {c[i][1] : i \in 1..Len(c)}

----------------------------------------------------------------------------
(* URLCache (cache.py); s is the object's state [cache, hits, misses, max_size] *)

Self == [cache |-> cache, hits |-> hits, misses |-> misses, max_size |-> max_size]

SetSelf(s) ==
    /\ cache' = s.cache
    /\ hits' = s.hits
    /\ misses' = s.misses
    /\ max_size' = s.max_size

\* URLCache.get: what it returns
URLCache_get_ret(s, key) ==
    IF lru_contains(s.cache, key) THEN lru_value(s.cache, key) ELSE None

\* URLCache.get: the state it leaves
URLCache_get(s, key) ==
    IF lru_contains(s.cache, key)
    THEN [s EXCEPT !.hits = @ + 1, !.cache = lru_touch(@, key)]
    ELSE [s EXCEPT !.misses = @ + 1]

\* URLCache.set
URLCache_set(s, key, value) ==
    [s EXCEPT !.cache = lru_setitem(@, key, value, s.max_size)]

URLCache_set_exc(s) == IF lru_set_raises(s.max_size) THEN "ValueError" ELSE None

\* mutant: the entry is not removed
URLCache_invalidate_kept(s, key) == s

\* mutant: the least recently used entry is removed instead
URLCache_invalidate_oldest(s, key) ==
    [s EXCEPT !.cache = IF Len(@) > 0 THEN Tail(@) ELSE @]

\* URLCache.invalidate
URLCache_invalidate(s, key) == [s EXCEPT !.cache = lru_pop(@, key)]

\* mutant: the counters survive a clear
URLCache_clear_counters_kept(s) == [s EXCEPT !.cache = <<>>]

\* URLCache.clear
URLCache_clear(s) == [s EXCEPT !.cache = <<>>, !.hits = 0, !.misses = 0]

\* URLCache.size
URLCache_size(s) == Len(s.cache)

\* mutant: the rate is the share of misses
hit_rate_of_misses(s) ==
    LET total == s.hits + s.misses IN
    IF total > 0 THEN [num |-> s.misses, den |-> total, is_int |-> FALSE] ELSE NoRate

\* cache.py:79-80: hit_rate = self.hits / total if total > 0 else 0
hit_rate(s) ==
    LET total == s.hits + s.misses IN
    IF total > 0 THEN [num |-> s.hits, den |-> total, is_int |-> FALSE] ELSE NoRate

\* URLCache.stats
URLCache_stats(s) ==
    [size |-> Len(s.cache), max_size |-> s.max_size, hits |-> s.hits,
     misses |-> s.misses, hit_rate |-> hit_rate(s)]

----------------------------------------------------------------------------
(* check_rate_limit (main.py) *)

Window == RATE_LIMIT_WINDOW * TicksPerSecond

\* mutant: old request times are never dropped
purge_nothing(times, t) == times

\* main.py:55: the request times of the client that are inside the window at time t
purge(times, t) == SelectSeq(times, LAMBDA req_time : t - req_time < Window)

\* main.py:60: int(RATE_LIMIT_WINDOW - (now - oldest_request)) + 1; int() truncates
\* toward zero
int_seconds(ticks) ==
    IF ticks >= 0 THEN ticks \div TicksPerSecond ELSE -((-ticks) \div TicksPerSecond)

\* mutant: the "+ 1" that rounds the wait up is missing
retry_after_truncated(oldest_request, t) == int_seconds(Window - (t - oldest_request))

retry_after_of(oldest_request, t) == int_seconds(Window - (t - oldest_request)) + 1

\* mutant: the limit is compared with > instead of >=
check_rate_limit_one_more(tracker, ip, t) ==
    LET kept == purge(tracker[ip], t) IN
    IF Len(kept) > RATE_LIMIT_REQUESTS
    THEN [tracker |-> [tracker EXCEPT ![ip] = kept], allowed |-> FALSE,
          retry_after |-> retry_after_of(kept[1], t), exc |-> None]
    ELSE [tracker |-> [tracker EXCEPT ![ip] = Append(kept, t)], allowed |-> TRUE,
          retry_after |-> 0, exc |-> None]

\* mutant: a rejected request is recorded too
check_rate_limit_records_rejected(tracker, ip, t) ==
    LET kept == purge(tracker[ip], t) IN
    [tracker |-> [tracker EXCEPT ![ip] = Append(kept, t)],
     allowed |-> Len(kept) < RATE_LIMIT_REQUESTS,
     retry_after |-> IF Len(kept) < RATE_LIMIT_REQUESTS THEN 0
                     ELSE retry_after_of(kept[1], t),
     exc |-> None]

\* check_rate_limit(ip) run at time t without interruption: the tracker it leaves
\* and (is_allowed, retry_after); rate_limit_tracker[ip][0] of an empty list raises
\* IndexError
check_rate_limit(tracker, ip, t) ==
    LET kept == purge(tracker[ip], t) IN
    IF Len(kept) >= RATE_LIMIT_REQUESTS
    THEN IF Len(kept) = 0
         THEN [tracker |-> [tracker EXCEPT ![ip] = kept], allowed |-> FALSE,
               retry_after |-> 0, exc |-> "IndexError"]
         ELSE [tracker |-> [tracker EXCEPT ![ip] = kept], allowed |-> FALSE,
               retry_after |-> retry_after_of(kept[1], t), exc |-> None]
    ELSE [tracker |-> [tracker EXCEPT ![ip] = Append(kept, t)], allowed |-> TRUE,
          retry_after |-> 0, exc |-> None]

InitRateIdle ==
    /\ rate_limit_tracker = [ip \in IPs |-> <<>>]
    /\ RATE_LIMIT_REQUESTS = 1
    /\ RATE_LIMIT_WINDOW = 1
    /\ now = 0
    /\ rl = NoCheck
    /\ admitted = [ip \in IPs |-> <<>>]
    /\ retry_at = [ip \in IPs |-> {}]
    /\ thr = [i \in Threads |-> Idle]

otherThanRate == <<cache, hits, misses, max_size, last_access, op_clock, last, urls, hist>>

\* time passes
Tick ==
    /\ now < MaxTime
    /\ now' = now + 1
    /\ admitted' = [ip \in IPs |->
                       SelectSeq(admitted[ip], LAMBDA t : now + 1 - t <= Window)]
    /\ retry_at' = [ip \in IPs |-> {t \in retry_at[ip] : t >= now + 1}]
    /\ rl' = NoCheck
    /\ UNCHANGED <<rate_limit_tracker, RATE_LIMIT_REQUESTS, RATE_LIMIT_WINDOW, thr>>
    /\ UNCHANGED otherThanRate

\* one request of client ip reaches check_rate_limit
Check(ip) ==
    LET r == check_rate_limit(rate_limit_tracker, ip, now) IN
    /\ rate_limit_tracker' = r.tracker
    /\ rl' = [ip |-> ip, allowed |-> r.allowed, retry_after |-> r.retry_after,
              at |-> now, exc |-> r.exc, retried |-> now \in retry_at[ip]]
    /\ admitted' = IF r.allowed THEN [admitted EXCEPT ![ip] = Append(@, now)] ELSE admitted
    /\ retry_at' = IF r.allowed THEN [retry_at EXCEPT ![ip] = {}]
                   ELSE IF r.exc # None THEN retry_at
                   ELSE [retry_at EXCEPT ![ip] = @ \cup {now + r.retry_after * TicksPerSecond}]
    /\ UNCHANGED <<RATE_LIMIT_REQUESTS, RATE_LIMIT_WINDOW, now, thr>>
    /\ UNCHANGED otherThanRate

InitRate ==
    /\ cache = <<>>
    /\ hits = 0
    /\ misses = 0
    /\ max_size = 1
    /\ last_access = [k \in CacheKeys |-> 0]
    /\ op_clock = 0
    /\ last = NoOp
    /\ urls = <<>>
    /\ hist = NoHist
    /\ rate_limit_tracker = [ip \in IPs |-> <<>>]
    /\ RATE_LIMIT_REQUESTS \in 1..MaxLimit
    /\ RATE_LIMIT_WINDOW \in 1..MaxWindow
    /\ now = 0
    /\ rl = NoCheck
    /\ admitted = [ip \in IPs |-> <<>>]
    /\ retry_at = [ip \in IPs |-> {}]
    /\ thr = [i \in Threads |-> Idle]

NextRate ==
    \/ Tick
    \/ \E ip \in IPs : Check(ip)

SpecRate == InitRate /\ [][NextRate]_vars

----------------------------------------------------------------------------
(* check_rate_limit called from several threads: nothing in main.py:47-65   *)
(* excludes another call between two of its statements                     *)

rateConfig == <<RATE_LIMIT_REQUESTS, RATE_LIMIT_WINDOW>>

\* a thread enters check_rate_limit(ip)
RlCall(i, ip) ==
    /\ thr[i].pc = "idle"
    /\ op_clock < MaxCalls
    /\ op_clock' = op_clock + 1
    /\ thr' = [thr EXCEPT ![i] = [Idle EXCEPT !.pc = "L53", !.ip = ip]]
    /\ UNCHANGED <<rate_limit_tracker, now, rl, admitted, retry_at, rateConfig>>
    /\ UNCHANGED <<cache, hits, misses, max_size, last_access, last, urls, hist>>

\* main.py:53  now = current_time()
RlNow(i) ==
    /\ thr[i].pc = "L53"
    /\ thr' = [thr EXCEPT ![i].pc = "L55", ![i].t = now]
    /\ UNCHANGED <<rate_limit_tracker, now, rl, admitted, retry_at, rateConfig>>
    /\ UNCHANGED otherThanRate

\* main.py:55, right-hand side: the list comprehension over rate_limit_tracker[ip]
RlPurgeRead(i) ==
    /\ thr[i].pc = "L55"
    /\ thr' = [thr EXCEPT ![i].pc = "L55=",
                          ![i].kept = purge(rate_limit_tracker[thr[i].ip], thr[i].t)]
    /\ UNCHANGED <<rate_limit_tracker, now, rl, admitted, retry_at, rateConfig>>
    /\ UNCHANGED otherThanRate

\* main.py:55, the assignment rate_limit_tracker[ip] = [...]
RlPurgeWrite(i) ==
    /\ thr[i].pc = "L55="
    /\ rate_limit_tracker' = [rate_limit_tracker EXCEPT ![thr[i].ip] = thr[i].kept]
    /\ thr' = [thr EXCEPT ![i].pc = "L57", ![i].kept = <<>>]
    /\ UNCHANGED <<now, rl, admitted, retry_at, rateConfig>>
    /\ UNCHANGED otherThanRate

\* main.py:57  if len(rate_limit_tracker[ip]) >= RATE_LIMIT_REQUESTS
RlCompare(i) ==
    /\ thr[i].pc = "L57"
    /\ thr' = [thr EXCEPT ![i].pc =
                  IF Len(rate_limit_tracker[thr[i].ip]) >= RATE_LIMIT_REQUESTS
                  THEN "L59" ELSE "L64"]
    /\ UNCHANGED <<rate_limit_tracker, now, rl, admitted, retry_at, rateConfig>>
    /\ UNCHANGED otherThanRate

\* main.py:59-61  oldest_request = rate_limit_tracker[ip][0]; return False, {...}
RlReject(i) ==
    LET ip == thr[i].ip
        times == rate_limit_tracker[ip]
    IN  /\ thr[i].pc = "L59"
        /\ rl' = IF Len(times) = 0
                 THEN [ip |-> ip, allowed |-> FALSE, retry_after |-> 0, at |-> thr[i].t,
                       exc |-> "IndexError", retried |-> FALSE]
                 ELSE [ip |-> ip, allowed |-> FALSE,
                       retry_after |-> retry_after_of(times[1], thr[i].t),
                       at |-> thr[i].t, exc |-> None, retried |-> FALSE]
        /\ thr' = [thr EXCEPT ![i] = Idle]
        /\ UNCHANGED <<rate_limit_tracker, now, admitted, retry_at, rateConfig>>
        /\ UNCHANGED otherThanRate

\* main.py:64-65  rate_limit_tracker[ip].append(now); return True, None
RlAppend(i) ==
    LET ip == thr[i].ip IN
    /\ thr[i].pc = "L64"
    /\ rate_limit_tracker' = [rate_limit_tracker EXCEPT ![ip] = Append(@, thr[i].t)]
    /\ admitted' = [admitted EXCEPT ![ip] = Append(@, thr[i].t)]
    /\ rl' = [ip |-> ip, allowed |-> TRUE, retry_after |-> 0, at |-> thr[i].t,
              exc |-> None, retried |-> FALSE]
    /\ thr' = [thr EXCEPT ![i] = Idle]
    /\ UNCHANGED <<now, retry_at, rateConfig>>
    /\ UNCHANGED otherThanRate

NextRateConc ==
    \/ Tick
    \/ \E i \in Threads, ip \in IPs : RlCall(i, ip)
    \/ \E i \in Threads : RlNow(i)
    \/ \E i \in Threads : RlPurgeRead(i)
    \/ \E i \in Threads : RlPurgeWrite(i)
    \/ \E i \in Threads : RlCompare(i)
    \/ \E i \in Threads : RlReject(i)
    \/ \E i \in Threads : RlAppend(i)

SpecRateConc == InitRate /\ [][NextRateConc]_vars

----------------------------------------------------------------------------
(* The cache alone: callers invoke its methods one at a time (each method    *)
(* body runs under self.lock)                                              *)

CacheValues == {URL1, NOT_FOUND, None}

Touch(key) ==
    /\ op_clock' = op_clock + 1
    /\ last_access' = [last_access EXCEPT ![key] = op_clock + 1]

NoTouch ==
    /\ op_clock' = op_clock + 1
    /\ UNCHANGED last_access

Get(key) ==
    /\ op_clock < MaxOps
    /\ SetSelf(URLCache_get(Self, key))
    /\ IF lru_contains(cache, key) THEN Touch(key) ELSE NoTouch
    /\ last' = [op |-> "get", present |-> lru_contains(cache, key), queried |-> FALSE, stats |-> NoStats, key |-> key, ret |-> URLCache_get_ret(Self, key), exc |-> None, status |-> None]
    /\ hist' = HistGet(hist, cache, key)
    /\ UNCHANGED <<storeVars, rateVars, thr>>

Set(key, value) ==
    /\ op_clock < MaxOps
    /\ SetSelf(URLCache_set(Self, key, value))
    /\ IF URLCache_set_exc(Self) = None THEN Touch(key) ELSE NoTouch
    /\ last' = [op |-> "set", present |-> lru_contains(cache, key), queried |-> FALSE, stats |-> NoStats, key |-> key, ret |-> None, exc |-> URLCache_set_exc(Self), status |-> None]
    /\ UNCHANGED <<storeVars, hist, rateVars, thr>>

Invalidate(key) ==
    /\ op_clock < MaxOps
    /\ SetSelf(URLCache_invalidate(Self, key))
    /\ op_clock' = op_clock + 1
    /\ last_access' = [last_access EXCEPT ![key] = 0]
    /\ last' = [op |-> "invalidate", present |-> lru_contains(cache, key), queried |-> FALSE, stats |-> NoStats, key |-> key, ret |-> None, exc |-> None, status |-> None]
    /\ UNCHANGED <<storeVars, hist, rateVars, thr>>

Clear ==
    /\ op_clock < MaxOps
    /\ SetSelf(URLCache_clear(Self))
    /\ op_clock' = op_clock + 1
    /\ last_access' = [k \in CacheKeys |-> 0]
    /\ last' = [op |-> "clear", present |-> FALSE, queried |-> FALSE, stats |-> NoStats, key |-> <<>>, ret |-> None, exc |-> None, status |-> None]
    /\ hist' = HistClear(hist)
    /\ UNCHANGED <<storeVars, rateVars, thr>>

Stats ==
    /\ op_clock < MaxOps
    /\ NoTouch
    /\ last' = [op |-> "stats", present |-> FALSE, queried |-> FALSE, stats |-> URLCache_stats(Self),
                key |-> <<>>, ret |-> None, exc |-> None, status |-> None]
    /\ UNCHANGED <<cacheVars, storeVars, hist, rateVars, thr>>

Size ==
    /\ op_clock < MaxOps
    /\ NoTouch
    /\ last' = [op |-> "size", present |-> FALSE, queried |-> FALSE,
                stats |-> [NoStats EXCEPT !.size = URLCache_size(Self)],
                key |-> <<>>, ret |-> None, exc |-> None, status |-> None]
    /\ UNCHANGED <<cacheVars, storeVars, hist, rateVars, thr>>

InitCache ==
    /\ cache = <<>>
    /\ hits = 0
    /\ misses = 0
    /\ max_size \in 1..MaxCap
    /\ last_access = [k \in CacheKeys |-> 0]
    /\ op_clock = 0
    /\ last = NoOp
    /\ urls = <<>>
    /\ hist = NoHist
    /\ InitRateIdle

NextCache ==
    \/ \E key \in CacheKeys : Get(key)
    \/ \E key \in CacheKeys, value \in CacheValues : Set(key, value)
    \/ \E key \in CacheKeys : Invalidate(key)
    \/ Clear
    \/ Stats
    \/ Size

SpecCache == InitCache /\ [][NextCache]_vars

----------------------------------------------------------------------------
(* The cache and the rate limiter under every configuration from 0 up: the  *)
(* environment variables CACHE_SIZE, RATE_LIMIT_REQUESTS and                *)
(* RATE_LIMIT_WINDOW are read with int() and not checked (main.py:33,43,44) *)

InitAnyConfig ==
    /\ cache = <<>>
    /\ hits = 0
    /\ misses = 0
    /\ last_access = [k \in CacheKeys |-> 0]
    /\ op_clock = 0
    /\ last = NoOp
    /\ urls = <<>>
    /\ hist = NoHist
    /\ rate_limit_tracker = [ip \in IPs |-> <<>>]
    /\ now = 0
    /\ rl = NoCheck
    /\ admitted = [ip \in IPs |-> <<>>]
    /\ retry_at = [ip \in IPs |-> {}]
    /\ thr = [i \in Threads |-> Idle]
    /\ \/ /\ max_size \in 0..MaxCap
          /\ RATE_LIMIT_REQUESTS = 1
          /\ RATE_LIMIT_WINDOW = 1
       \/ /\ max_size = 1
          /\ RATE_LIMIT_REQUESTS \in 0..MaxLimit
          /\ RATE_LIMIT_WINDOW \in 0..MaxWindow

\* a behaviour calls into the cache or into the rate limiter; with a window of 0
\* a client is admitted any number of times at one instant, of which MaxLimit + 1
\* are followed
NextAnyConfig ==
    \/ /\ now = 0
       /\ rl = NoCheck
       /\ NextCache
    \/ /\ op_clock = 0
       /\ \A ip \in IPs : Len(admitted[ip]) <= MaxLimit
       /\ NextRate

SpecAnyConfig == InitAnyConfig /\ [][NextAnyConfig]_vars

----------------------------------------------------------------------------
(* Characters and strings *)

SHORT_CODE_LENGTH == 6

Lowercase == <<"a", "b", "c", "d", "e", "f", "g", "h", "i", "j", "k", "l", "m",
               "n", "o", "p", "q", "r", "s", "t", "u", "v", "w", "x", "y", "z">>
Uppercase == <<"A", "B", "C", "D", "E", "F", "G", "H", "I", "J", "K", "L", "M",
               "N", "O", "P", "Q", "R", "S", "T", "U", "V", "W", "X", "Y", "Z">>
Digits == <<"0", "1", "2", "3", "4", "5", "6", "7", "8", "9">>

\* string.ascii_letters + string.digits
characters == Lowercase \o Uppercase \o Digits

\* bool(v) of an Optional[str]: None and "" are false
Truthy(v) == v # NoneStr /\ Len(v) > 0

\* a letter outside ASCII (U+00E9, written by name): str.isalnum() follows Unicode
OtherLetters == {"e_acute"}

\* str.isalnum(): at least one character and all of them letters or digits
isalnum(v) ==
    /\ Len(v) > 0
    /\ \A i \in 1..Len(v) : v[i] \in Range(characters) \cup OtherLetters

lower_char(ch) ==
    IF \E j \in 1..Len(Uppercase) : Uppercase[j] = ch
    THEN Lowercase[CHOOSE j \in 1..Len(Uppercase) : Uppercase[j] = ch]
    ELSE ch

upper_char(ch) ==
    IF \E j \in 1..Len(Lowercase) : Lowercase[j] = ch
    THEN Uppercase[CHOOSE j \in 1..Len(Lowercase) : Lowercase[j] = ch]
    ELSE ch

\* str.lower()
lower(v) == [i \in 1..Len(v) |-> lower_char(v[i])]

\* main.py:94
reserved ==
    { <<"a", "p", "i">>,
      <<"h", "e", "a", "l", "t", "h">>,
      <<"s", "h", "o", "r", "t", "e", "n">>,
      <<"i", "n", "f", "o">>,
      <<"a", "n", "a", "l", "y", "t", "i", "c", "s">>,
      <<"c", "a", "c", "h", "e">>,
      <<"q", "r", "c", "o", "d", "e">> }

\* URLRequest.validate_custom_code: "ok" when v is returned, "ValueError" when it
\* raises (the request is then answered with 422)
validate_custom_code(v) ==
    IF Truthy(v)
    THEN IF Len(v) < 3 \/ Len(v) > 20 THEN "ValueError"
         ELSE IF ~isalnum(v) THEN "ValueError"
         ELSE IF lower(v) \in reserved THEN "ValueError"
         ELSE "ok"
    ELSE "ok"

----------------------------------------------------------------------------
(* The urls table (sqlite): rows in rowid order, short_code UNIQUE *)

\* mutant: the query finds no row
code_exists_never(rows, code) == FALSE

\* code_exists: SELECT 1 FROM urls WHERE short_code = ?
code_exists(rows, code) == \E i \in 1..Len(rows) : rows[i].short_code = code

\* SELECT original_url FROM urls WHERE short_code = ? ; fetchone
select_url(rows, code) ==
    IF code_exists(rows, code)
    THEN rows[CHOOSE i \in 1..Len(rows) : rows[i].short_code = code].original_url
    ELSE None

\* get_existing_code: SELECT short_code FROM urls WHERE original_url = ? ; fetchone:
\* the first matching row, or None
get_existing_code(rows, url) ==
    IF \E i \in 1..Len(rows) : rows[i].original_url = url
    THEN rows[CHOOSE i \in 1..Len(rows) :
                /\ rows[i].original_url = url
                /\ \A j \in 1..(i - 1) : rows[j].original_url # url].short_code
    ELSE NoneStr

\* INSERT INTO urls ...: raises sqlite3.IntegrityError on a taken short_code
insert_raises(rows, code) == code_exists(rows, code)

insert_row(rows, code, url, is_custom) ==
    IF insert_raises(rows, code) THEN rows
    ELSE Append(rows, [short_code |-> code, original_url |-> url, is_custom |-> is_custom])

\* DELETE FROM urls WHERE short_code = ?
delete_row(rows, code) == SelectSeq(rows, LAMBDA r : r.short_code # code)

----------------------------------------------------------------------------
(* get_original_url (main.py), run without interruption *)

\* mutant: a cached NOT_FOUND marker is taken for a miss
get_original_url_after_get_marker_missed(s, rows, code, cached_url) ==
    IF cached_url # None /\ cached_url # NOT_FOUND
    THEN [st |-> s, exc |-> None, queried |-> FALSE, ret |-> cached_url]
    ELSE [st |-> URLCache_set(s, code, IF select_url(rows, code) # None
                                      THEN select_url(rows, code) ELSE NOT_FOUND),
          exc |-> URLCache_set_exc(s), queried |-> TRUE,
          ret |-> select_url(rows, code)]

\* the part after cache.get returned cached_url, from the state s that get left
get_original_url_after_get(s, rows, code, cached_url) ==
    IF cached_url # None
    THEN [st |-> s, exc |-> None, queried |-> FALSE,
          ret |-> IF cached_url # NOT_FOUND THEN cached_url ELSE None]
    ELSE IF select_url(rows, code) # None
         THEN [st |-> URLCache_set(s, code, select_url(rows, code)),
               exc |-> URLCache_set_exc(s), queried |-> TRUE,
               ret |-> IF URLCache_set_exc(s) = None THEN select_url(rows, code) ELSE None]
         ELSE [st |-> URLCache_set(s, code, NOT_FOUND),
               exc |-> URLCache_set_exc(s), queried |-> TRUE,
               ret |-> None]

get_original_url(s, rows, code) ==
    get_original_url_after_get(URLCache_get(s, code), rows, code, URLCache_get_ret(s, code))

\* mutant: a failed SELECT is taken for "no row"
get_original_url_store_down_swallowed(s, rows, code) ==
    get_original_url(s, <<>>, code)

\* get_original_url when sqlite3.connect or cursor.execute (main.py:234-236)
\* raises: nothing catches the exception, so the statements after it are not run
get_original_url_store_down(s, rows, code) ==
    IF URLCache_get_ret(s, code) # None
    THEN get_original_url(s, rows, code)
    ELSE [st |-> URLCache_get(s, code), exc |-> "sqlite3.Error", queried |-> TRUE,
          ret |-> None]

----------------------------------------------------------------------------
(* Request handlers, one request at a time *)

Count ==
    /\ op_clock < MaxReq
    /\ op_clock' = op_clock + 1
    /\ UNCHANGED last_access

\* GET /info/{short_code}: get_url_info -> get_original_url
get_url_info(s, rows, code) ==
    LET r == get_original_url(s, rows, code) IN
    [st |-> r.st, ret |-> r.ret, exc |-> r.exc, queried |-> r.queried,
     status |-> IF r.exc # None THEN "500" ELSE IF r.ret = None THEN "404" ELSE "200"]

Resolve(code) ==
    LET r == get_url_info(Self, urls, code) IN
    /\ Count
    /\ SetSelf(r.st)
    /\ last' = [op |-> "resolve", present |-> FALSE, queried |-> r.queried, stats |-> NoStats, key |-> code,
                ret |-> r.ret, exc |-> r.exc, status |-> r.status]
    /\ hist' = HistQueries(HistGet(hist, cache, code), r.st.cache, code, r.queried)
    /\ UNCHANGED <<storeVars, rateVars, thr>>

\* GET /info/{short_code} while the database cannot be read: get_url_info does
\* not catch what get_original_url raises, and the request is answered with 500
ResolveStoreDown(code) ==
    LET r == get_original_url_store_down(Self, urls, code) IN
    /\ Count
    /\ SetSelf(r.st)
    /\ last' = [op |-> "resolve_store_down", present |-> FALSE, queried |-> r.queried, stats |-> NoStats,
                key |-> code, ret |-> r.ret, exc |-> r.exc,
                status |-> IF r.exc # None THEN "500"
                           ELSE IF r.ret = None THEN "404" ELSE "200"]
    /\ hist' = HistQueries(HistGet(hist, cache, code), r.st.cache, code,
                           r.queried /\ r.exc = None)
    /\ UNCHANGED <<storeVars, rateVars, thr>>

\* the short codes generate_short_code draws here: random.choices over the first
\* MaxDraw symbols in the last position, the first symbol elsewhere
GenPool ==
    {[i \in 1..SHORT_CODE_LENGTH |->
        IF i < SHORT_CODE_LENGTH THEN characters[1] ELSE characters[j]] : j \in 1..MaxDraw}

\* generate_short_code, run to its return: a drawn code that code_exists denies
generate_short_code_returns(rows) == {c \in GenPool : ~code_exists(rows, c)}

\* shorten_url after request validation; generated is what generate_short_code
\* returns if it is called
shorten_url(s, rows, url, custom_code, generated) ==
    LET existing_code == get_existing_code(rows, url)
        short_code == IF Truthy(custom_code) THEN custom_code ELSE generated
    IN  IF Truthy(existing_code)
        THEN [st |-> s, rows |-> rows, status |-> "201", code |-> existing_code, created |-> FALSE]
        ELSE IF Truthy(custom_code) /\ code_exists(rows, custom_code)
        THEN [st |-> s, rows |-> rows, status |-> "409", code |-> <<>>, created |-> FALSE]
        ELSE IF insert_raises(rows, short_code)
        THEN [st |-> s, rows |-> rows, status |-> "500", code |-> <<>>, created |-> FALSE]
        ELSE [st |-> URLCache_invalidate(s, short_code),
              rows |-> insert_row(rows, short_code, url, Truthy(custom_code)),
              status |-> "201", code |-> short_code, created |-> TRUE]

\* custom codes a request may carry (all pass validate_custom_code), or none
CustomInputs == {NoneStr, Promo, CodeA}

\* generate_short_code is called only for a new URL without a custom code
Shorten(url, custom_code) ==
    \E generated \in IF Truthy(get_existing_code(urls, url)) \/ Truthy(custom_code)
                     THEN {<<>>}
                     ELSE generate_short_code_returns(urls) :
        LET r == shorten_url(Self, urls, url, custom_code, generated) IN
        /\ Count
        /\ SetSelf(r.st)
        /\ urls' = r.rows
        /\ last' = [op |-> "shorten", present |-> FALSE, queried |-> FALSE, stats |-> NoStats, key |-> r.code, ret |-> None, exc |-> None,
                    status |-> r.status]
        /\ hist' = HistQueries(
                      IF r.created /\ lru_contains(cache, r.code)
                         /\ lru_value(cache, r.code) = NOT_FOUND
                      THEN [hist EXCEPT !.neg_then_created = @ \cup {r.code}]
                      ELSE hist,
                      r.st.cache, r.code, FALSE)
        /\ UNCHANGED <<rateVars, thr>>

\* DELETE /{short_code}
delete_url(s, rows, code) ==
    IF ~code_exists(rows, code)
    THEN [st |-> s, rows |-> rows, status |-> "404"]
    ELSE [st |-> URLCache_invalidate(s, code), rows |-> delete_row(rows, code),
          status |-> "200"]

Delete(code) ==
    LET r == delete_url(Self, urls, code) IN
    /\ Count
    /\ SetSelf(r.st)
    /\ urls' = r.rows
    /\ last' = [op |-> "delete", present |-> FALSE, queried |-> FALSE, stats |-> NoStats, key |-> code, ret |-> None, exc |-> None,
                status |-> r.status]
    /\ hist' = HistQueries(
                  IF r.status = "200" /\ lru_contains(cache, code)
                     /\ lru_value(cache, code) \in URLs
                  THEN [hist EXCEPT !.pos_then_deleted = @ \cup {code}]
                  ELSE hist,
                  r.st.cache, code, FALSE)
    /\ UNCHANGED <<rateVars, thr>>

\* POST /api/cache-clear
CacheClear ==
    /\ Count
    /\ SetSelf(URLCache_clear(Self))
    /\ last' = [op |-> "cache_clear", present |-> FALSE, queried |-> FALSE, stats |-> NoStats, key |-> <<>>, ret |-> None, exc |-> None,
                status |-> "200"]
    /\ hist' = HistQueries(HistClear(hist), <<>>, <<>>, FALSE)
    /\ UNCHANGED <<storeVars, rateVars, thr>>

Init == InitCache

----------------------------------------------------------------------------
(* The handlers called from several threads: the cache methods run under    *)
(* self.lock and each SQL statement is one step of the store, but nothing   *)
(* in main.py excludes another call between two of them                    *)

otherThanCoord == <<last_access, rateVars>>

WriterPcs == {"S475", "S479", "S485", "S499", "D705", "D713", "D719"}

WriterInFlight == \E j \in Threads : thr[j].pc \in WriterPcs

StartCall ==
    /\ op_clock < MaxCalls
    /\ op_clock' = op_clock + 1

\* the in-flight lookups are no longer clean once a writer begins
Dirty(t) == [j \in Threads |-> [t[j] EXCEPT !.clean = FALSE]]

\* main.py:228-231  cached_url = cache.get(code); return on a hit
GouGet(i, code) ==
    LET cached_url == URLCache_get_ret(Self, code)
        r == get_original_url_after_get(URLCache_get(Self, code), urls, code, cached_url)
    IN  /\ thr[i].pc = "idle"
        /\ StartCall
        /\ SetSelf(URLCache_get(Self, code))
        /\ IF cached_url # None
           THEN /\ thr' = [thr EXCEPT ![i] = [Idle EXCEPT !.clean = ~WriterInFlight]]
                /\ last' = [op |-> "resolve", present |-> FALSE, queried |-> FALSE, stats |-> NoStats, key |-> code, ret |-> r.ret, exc |-> None,
                            status |-> IF r.ret = None THEN "404" ELSE "200"]
           ELSE /\ thr' = [thr EXCEPT ![i] = [Idle EXCEPT !.pc = "G236", !.code = code,
                                                         !.clean = ~WriterInFlight]]
                /\ last' = NoOp
        /\ UNCHANGED <<urls, hist>>
        /\ UNCHANGED otherThanCoord

\* main.py:234-238  SELECT original_url FROM urls WHERE short_code = ?
GouSelect(i) ==
    /\ thr[i].pc = "G236"
    /\ thr' = [thr EXCEPT ![i].pc = "G240", ![i].result = select_url(urls, thr[i].code)]
    /\ last' = NoOp
    /\ UNCHANGED <<cacheVars, op_clock, urls, hist>>
    /\ UNCHANGED otherThanCoord

\* main.py:240-247  cache.set(code, url) or cache.set(code, "__NOT_FOUND__"); return
GouSet(i) ==
    LET code == thr[i].code
        value == IF thr[i].result # None THEN thr[i].result ELSE NOT_FOUND
    IN  /\ thr[i].pc = "G240"
        /\ SetSelf(URLCache_set(Self, code, value))
        /\ thr' = [thr EXCEPT ![i] = [Idle EXCEPT !.clean = thr[i].clean]]
        /\ last' = [op |-> "resolve", present |-> FALSE, queried |-> FALSE, stats |-> NoStats, key |-> code, ret |-> thr[i].result,
                    exc |-> URLCache_set_exc(Self),
                    status |-> IF thr[i].result = None THEN "404" ELSE "200"]
        /\ UNCHANGED <<op_clock, urls, hist>>
        /\ UNCHANGED otherThanCoord

\* main.py:461-466  existing_code = get_existing_code(original_url); return it if any
ShExisting(i, url, custom_code) ==
    LET existing_code == get_existing_code(urls, url) IN
    /\ thr[i].pc = "idle"
    /\ StartCall
    /\ IF Truthy(existing_code)
       THEN /\ thr' = thr
            /\ last' = [op |-> "shorten", present |-> FALSE, queried |-> FALSE, stats |-> NoStats, key |-> existing_code, ret |-> None,
                        exc |-> None, status |-> "201"]
       ELSE /\ thr' = [Dirty(thr) EXCEPT ![i] =
                         [Idle EXCEPT !.pc = IF Truthy(custom_code) THEN "S475" ELSE "S479",
                                      !.url = url, !.custom_code = custom_code]]
            /\ last' = NoOp
    /\ UNCHANGED <<cacheVars, urls, hist>>
    /\ UNCHANGED otherThanCoord

\* main.py:472-476  if code_exists(short_code): raise HTTPException(409)
ShCustom(i) ==
    /\ thr[i].pc = "S475"
    /\ IF code_exists(urls, thr[i].custom_code)
       THEN /\ thr' = [thr EXCEPT ![i] = Idle]
            /\ last' = [op |-> "shorten", present |-> FALSE, queried |-> FALSE, stats |-> NoStats, key |-> <<>>, ret |-> None, exc |-> None,
                        status |-> "409"]
       ELSE /\ thr' = [thr EXCEPT ![i].pc = "S485", ![i].code = thr[i].custom_code]
            /\ last' = NoOp
    /\ UNCHANGED <<cacheVars, op_clock, urls, hist>>
    /\ UNCHANGED otherThanCoord

\* main.py:479  short_code = generate_short_code(): its last code_exists query
ShGenerate(i) ==
    /\ thr[i].pc = "S479"
    /\ \E generated \in generate_short_code_returns(urls) :
            thr' = [thr EXCEPT ![i].pc = "S485", ![i].code = generated]
    /\ last' = NoOp
    /\ UNCHANGED <<cacheVars, op_clock, urls, hist>>
    /\ UNCHANGED otherThanCoord

\* main.py:482-496  INSERT INTO urls ...; commit; IntegrityError -> HTTPException(500)
ShInsert(i) ==
    /\ thr[i].pc = "S485"
    /\ urls' = insert_row(urls, thr[i].code, thr[i].url, Truthy(thr[i].custom_code))
    /\ IF insert_raises(urls, thr[i].code)
       THEN /\ thr' = [thr EXCEPT ![i] = Idle]
            /\ last' = [op |-> "shorten", present |-> FALSE, queried |-> FALSE, stats |-> NoStats, key |-> <<>>, ret |-> None,
                        exc |-> "IntegrityError", status |-> "500"]
       ELSE /\ thr' = [thr EXCEPT ![i].pc = "S499"]
            /\ last' = NoOp
    /\ UNCHANGED <<cacheVars, op_clock, hist>>
    /\ UNCHANGED otherThanCoord

\* main.py:498-501  cache.invalidate(short_code); return
ShInvalidate(i) ==
    /\ thr[i].pc = "S499"
    /\ SetSelf(URLCache_invalidate(Self, thr[i].code))
    /\ thr' = [thr EXCEPT ![i] = Idle]
    /\ last' = [op |-> "shorten", present |-> FALSE, queried |-> FALSE, stats |-> NoStats, key |-> thr[i].code, ret |-> None, exc |-> None,
                status |-> "201"]
    /\ UNCHANGED <<op_clock, urls, hist>>
    /\ UNCHANGED otherThanCoord

\* main.py:701-709  SELECT id FROM urls WHERE short_code = ?; 404 if there is none
DelSelect(i, code) ==
    /\ thr[i].pc = "idle"
    /\ StartCall
    /\ IF ~code_exists(urls, code)
       THEN /\ thr' = thr
            /\ last' = [op |-> "delete", present |-> FALSE, queried |-> FALSE, stats |-> NoStats, key |-> code, ret |-> None, exc |-> None,
                        status |-> "404"]
       ELSE /\ thr' = [Dirty(thr) EXCEPT ![i] = [Idle EXCEPT !.pc = "D713", !.code = code]]
            /\ last' = NoOp
    /\ UNCHANGED <<cacheVars, urls, hist>>
    /\ UNCHANGED otherThanCoord

\* main.py:711-716  DELETE FROM clicks ...; DELETE FROM urls ...; commit
DelDelete(i) ==
    /\ thr[i].pc = "D713"
    /\ urls' = delete_row(urls, thr[i].code)
    /\ thr' = [thr EXCEPT ![i].pc = "D719"]
    /\ last' = NoOp
    /\ UNCHANGED <<cacheVars, op_clock, hist>>
    /\ UNCHANGED otherThanCoord

\* main.py:718-722  cache.invalidate(short_code); return
DelInvalidate(i) ==
    /\ thr[i].pc = "D719"
    /\ SetSelf(URLCache_invalidate(Self, thr[i].code))
    /\ thr' = [thr EXCEPT ![i] = Idle]
    /\ last' = [op |-> "delete", present |-> FALSE, queried |-> FALSE, stats |-> NoStats, key |-> thr[i].code, ret |-> None, exc |-> None,
                status |-> "200"]
    /\ UNCHANGED <<op_clock, urls, hist>>
    /\ UNCHANGED otherThanCoord

NextConc ==
    \/ \E i \in Threads, code \in Keys : GouGet(i, code)
    \/ \E i \in Threads : GouSelect(i)
    \/ \E i \in Threads : GouSet(i)
    \/ \E i \in Threads, url \in URLs, custom_code \in CustomInputs :
            ShExisting(i, url, custom_code)
    \/ \E i \in Threads : ShCustom(i)
    \/ \E i \in Threads : ShGenerate(i)
    \/ \E i \in Threads : ShInsert(i)
    \/ \E i \in Threads : ShInvalidate(i)
    \/ \E i \in Threads, code \in Keys : DelSelect(i, code)
    \/ \E i \in Threads : DelDelete(i)
    \/ \E i \in Threads : DelInvalidate(i)

SpecConc == Init /\ [][NextConc]_vars

Next ==
    \/ \E code \in Keys : Resolve(code)
    \/ \E code \in Keys : ResolveStoreDown(code)
    \/ \E url \in URLs, custom_code \in CustomInputs : Shorten(url, custom_code)
    \/ \E code \in Keys : Delete(code)
    \/ CacheClear

Spec == Init /\ [][Next]_vars

\* redirect_url (main.py:518-544): its own SELECT on the urls table; the rows of
\* the model carry no expires_at (never expired), and a failure of record_click
\* is logged and ignored
redirect_url(rows, code) ==
    [ret |-> select_url(rows, code), queried |-> TRUE,
     status |-> IF select_url(rows, code) = None THEN "404" ELSE "307"]

\* GET /{short_code}
Redirect(code) ==
    LET r == redirect_url(urls, code) IN
    /\ Count
    /\ last' = [op |-> "redirect", present |-> FALSE, queried |-> r.queried, stats |-> NoStats,
                key |-> code, ret |-> r.ret, exc |-> None, status |-> r.status]
    /\ UNCHANGED <<cacheVars, storeVars, hist, rateVars, thr>>

NextRedirect ==
    \/ Next
    \/ \E code \in Keys : Redirect(code)

SpecRedirect == Init /\ [][NextRedirect]_vars

\* mutant: the exception of record_click leaves the handler
redirect_url_click_failed_raised(rows, code) ==
    [ret |-> None, queried |-> TRUE, exc |-> "sqlite3.Error",
     status |-> IF select_url(rows, code) = None THEN "404" ELSE "500"]

\* redirect_url when record_click (main.py:260-285) raises: `except Exception`
\* (main.py:540-542) logs a warning and the handler goes on to its return; a code
\* without a row is answered with 404 before record_click is reached
redirect_url_click_failed(rows, code) ==
    [ret |-> select_url(rows, code), queried |-> TRUE, exc |-> None,
     status |-> IF select_url(rows, code) = None THEN "404" ELSE "307"]

\* GET /{short_code} of a code that has a row, while the click cannot be recorded
RedirectClickFailed(code) ==
    LET r == redirect_url_click_failed(urls, code) IN
    /\ code_exists(urls, code)
    /\ Count
    /\ last' = [op |-> "redirect_click_failed", present |-> FALSE, queried |-> r.queried,
                stats |-> NoStats, key |-> code, ret |-> r.ret, exc |-> r.exc,
                status |-> r.status]
    /\ UNCHANGED <<cacheVars, storeVars, hist, rateVars, thr>>

\* creations, deletions and redirects, with and without a failing record_click
NextClick ==
    \/ \E url \in URLs, custom_code \in CustomInputs : Shorten(url, custom_code)
    \/ \E code \in Keys : Delete(code)
    \/ \E code \in Keys : Redirect(code)
    \/ \E code \in Keys : RedirectClickFailed(code)

SpecClick == Init /\ [][NextClick]_vars

----------------------------------------------------------------------------
(* Requests through rate_limit_middleware (main.py:417-431), one at a time  *)

\* a request: its path (the route of main.py it matches), and the short code,
\* URL and custom code it carries
HttpRequests ==
    { [path |-> "/health", code |-> <<>>, url |-> None, custom_code |-> NoneStr],
      [path |-> "/info", code |-> CodeA, url |-> None, custom_code |-> NoneStr],
      [path |-> "/shorten", code |-> <<>>, url |-> URL1, custom_code |-> NoneStr],
      [path |-> "/delete", code |-> CodeA, url |-> None, custom_code |-> NoneStr] }

\* call_next(request): the handler of the route; health (main.py:435-438) returns
\* {"status": "healthy"}
call_next(s, rows, req, generated) ==
    CASE req.path = "/health" ->
           [st |-> s, rows |-> rows, status |-> "200"]
      [] req.path = "/info" ->
           LET r == get_url_info(s, rows, req.code)
           IN  [st |-> r.st, rows |-> rows, status |-> r.status]
      [] req.path = "/shorten" ->
           LET r == shorten_url(s, rows, req.url, req.custom_code, generated)
           IN  [st |-> r.st, rows |-> r.rows, status |-> r.status]
      [] req.path = "/delete" ->
           LET r == delete_url(s, rows, req.code)
           IN  [st |-> r.st, rows |-> r.rows, status |-> r.status]

\* what a request leaves: tracker, cache object, rows, the HTTP status, and the
\* result of check_rate_limit if it was called (checked)
Served(tracker, c, checked, r) ==
    [tracker |-> tracker, st |-> r.st, rows |-> r.rows, status |-> r.status,
     checked |-> checked, allowed |-> c.allowed, retry_after |-> c.retry_after,
     exc |-> c.exc]

NotChecked == [allowed |-> TRUE, retry_after |-> 0, exc |-> None]

\* mutant: health requests are rate limited like the others
rate_limit_middleware_checks_health(tracker, s, rows, ip, req, t, generated) ==
    LET c == check_rate_limit(tracker, ip, t) IN
    IF ~c.allowed
    THEN Served(c.tracker, c, TRUE, [st |-> s, rows |-> rows, status |-> "429"])
    ELSE Served(c.tracker, c, TRUE, call_next(s, rows, req, generated))

\* mutant: the handler has run by the time the request is rejected
rate_limit_middleware_handler_first(tracker, s, rows, ip, req, t, generated) ==
    LET c == check_rate_limit(tracker, ip, t)
        r == call_next(s, rows, req, generated)
    IN  IF req.path = "/health" THEN Served(tracker, NotChecked, FALSE, r)
        ELSE IF ~c.allowed
        THEN Served(c.tracker, c, TRUE, [r EXCEPT !.status = "429"])
        ELSE Served(c.tracker, c, TRUE, r)

\* rate_limit_middleware; an exception of check_rate_limit is answered with 500
rate_limit_middleware(tracker, s, rows, ip, req, t, generated) ==
    LET c == check_rate_limit(tracker, ip, t) IN
    IF req.path = "/health"
    THEN Served(tracker, NotChecked, FALSE, call_next(s, rows, req, generated))
    ELSE IF c.exc # None
    THEN Served(c.tracker, c, TRUE, [st |-> s, rows |-> rows, status |-> "500"])
    ELSE IF ~c.allowed
    THEN Served(c.tracker, c, TRUE, [st |-> s, rows |-> rows, status |-> "429"])
    ELSE Served(c.tracker, c, TRUE, call_next(s, rows, req, generated))

\* one request of client ip; thr[1].ip keeps the client of the latest request
Http(ip, req) ==
    \E generated \in IF req.path = "/shorten"
                        /\ ~Truthy(get_existing_code(urls, req.url))
                        /\ ~Truthy(req.custom_code)
                     THEN generate_short_code_returns(urls)
                     ELSE {<<>>} :
        LET m == rate_limit_middleware(rate_limit_tracker, Self, urls, ip, req, now,
                                       generated)
        IN  /\ op_clock < MaxHttp
            /\ op_clock' = op_clock + 1
            /\ UNCHANGED last_access
            /\ SetSelf(m.st)
            /\ urls' = m.rows
            /\ rate_limit_tracker' = m.tracker
            /\ last' = [op |-> req.path, present |-> FALSE, queried |-> FALSE,
                        stats |-> NoStats, key |-> req.code, ret |-> None,
                        exc |-> m.exc, status |-> m.status]
            /\ thr' = [thr EXCEPT ![1].ip = ip]
            /\ rl' = IF m.checked
                     THEN [ip |-> ip, allowed |-> m.allowed, retry_after |-> m.retry_after,
                           at |-> now, exc |-> m.exc, retried |-> FALSE]
                     ELSE NoCheck
            /\ UNCHANGED <<hist, admitted, retry_at, RATE_LIMIT_REQUESTS,
                           RATE_LIMIT_WINDOW, now>>

\* time passes while requests are served, up to one longest window
HttpTick ==
    /\ now < MaxWindow * TicksPerSecond
    /\ Tick

NextHttp ==
    \/ HttpTick
    \/ \E ip \in IPs, req \in HttpRequests : Http(ip, req)

SpecHttp == InitRate /\ [][NextHttp]_vars

----------------------------------------------------------------------------
(* URLCache called from several threads: every method body runs inside      *)
(* "with self.lock", one statement at a time                               *)

LockKeys == {CodeA}
LockValues == {URL1}
Methods == {"get", "set", "invalidate", "clear", "stats", "size"}
LockedPcs == {"C38", "C39", "C40", "C42", "C53", "C63", "C68", "C69", "C70",
              "C79", "C80", "C82", "C84", "C85", "C97"}

\* mutant: the lock excludes nobody
lock_free_always == TRUE

\* threading.Lock (cache.py:24): free when no thread is inside a "with self.lock"
lock_free == \A j \in Threads : thr[j].pc \notin LockedPcs

FirstPc(op) ==
    CASE op = "get" -> "C38"
      [] op = "set" -> "C53"
      [] op = "invalidate" -> "C63"
      [] op = "clear" -> "C68"
      [] op = "stats" -> "C79"
      [] op = "size" -> "C97"

otherThanLock == <<last_access, storeVars, hist, rateVars>>

\* a thread calls a method and reaches its "with self.lock"
LkCall(i, op, key, value) ==
    /\ thr[i].pc = "idle"
    /\ StartCall
    /\ thr' = [thr EXCEPT ![i] = [Idle EXCEPT !.pc = "acquire", !.op = op,
                                              !.code = key, !.url = value]]
    /\ UNCHANGED <<cacheVars, last>>
    /\ UNCHANGED otherThanLock

\* with self.lock: enter
LkAcquire(i) ==
    /\ thr[i].pc = "acquire"
    /\ lock_free
    /\ thr' = [thr EXCEPT ![i].pc = FirstPc(thr[i].op), ![i].snap = Self]
    /\ UNCHANGED <<cacheVars, op_clock, last>>
    /\ UNCHANGED otherThanLock

\* the method returns (leaving the "with" block); what it was called with and
\* what it saw and returned stay visible until the thread's next call
LkReturn(i, ret, exc, stats) ==
    /\ thr' = [thr EXCEPT ![i].pc = "idle", ![i].stats = stats]
    /\ last' = [op |-> thr[i].op, present |-> FALSE, queried |-> FALSE, stats |-> stats,
                key |-> thr[i].code, ret |-> ret, exc |-> exc, status |-> None]
    /\ UNCHANGED op_clock
    /\ UNCHANGED otherThanLock

LkStep(i, pc) ==
    /\ thr' = [thr EXCEPT ![i].pc = pc]
    /\ UNCHANGED <<op_clock, last>>
    /\ UNCHANGED otherThanLock

\* cache.py:38  if key in self.cache
LkGetTest(i) ==
    /\ thr[i].pc = "C38"
    /\ LkStep(i, IF lru_contains(cache, thr[i].code) THEN "C39" ELSE "C42")
    /\ UNCHANGED cacheVars

\* cache.py:39  self.hits += 1
LkGetHit(i) ==
    /\ thr[i].pc = "C39"
    /\ hits' = hits + 1
    /\ LkStep(i, "C40")
    /\ UNCHANGED <<cache, misses, max_size>>

\* cache.py:40  return self.cache[key]   (KeyError if the key has gone)
LkGetReturn(i) ==
    /\ thr[i].pc = "C40"
    /\ IF lru_contains(cache, thr[i].code)
       THEN /\ cache' = lru_touch(cache, thr[i].code)
            /\ LkReturn(i, lru_value(cache, thr[i].code), None, NoStats)
       ELSE /\ cache' = cache
            /\ LkReturn(i, None, "KeyError", NoStats)
    /\ UNCHANGED <<hits, misses, max_size>>

\* cache.py:42-43  self.misses += 1; return None
LkGetMiss(i) ==
    /\ thr[i].pc = "C42"
    /\ misses' = misses + 1
    /\ LkReturn(i, None, None, NoStats)
    /\ UNCHANGED <<cache, hits, max_size>>

\* cache.py:53  self.cache[key] = value
LkSet(i) ==
    /\ thr[i].pc = "C53"
    /\ SetSelf(URLCache_set(Self, thr[i].code, thr[i].url))
    /\ LkReturn(i, None, URLCache_set_exc(Self), NoStats)

\* cache.py:63  self.cache.pop(key, None)
LkInvalidate(i) ==
    /\ thr[i].pc = "C63"
    /\ SetSelf(URLCache_invalidate(Self, thr[i].code))
    /\ LkReturn(i, None, None, NoStats)

\* cache.py:68  self.cache.clear()
LkClearEntries(i) ==
    /\ thr[i].pc = "C68"
    /\ cache' = <<>>
    /\ LkStep(i, "C69")
    /\ UNCHANGED <<hits, misses, max_size>>

\* cache.py:69  self.hits = 0
LkClearHits(i) ==
    /\ thr[i].pc = "C69"
    /\ hits' = 0
    /\ LkStep(i, "C70")
    /\ UNCHANGED <<cache, misses, max_size>>

\* cache.py:70  self.misses = 0
LkClearMisses(i) ==
    /\ thr[i].pc = "C70"
    /\ misses' = 0
    /\ LkReturn(i, None, None, NoStats)
    /\ UNCHANGED <<cache, hits, max_size>>

\* cache.py:79  total = self.hits + self.misses
LkStatsTotal(i) ==
    /\ thr[i].pc = "C79"
    /\ thr' = [thr EXCEPT ![i].pc = "C80", ![i].t = hits + misses]
    /\ UNCHANGED <<cacheVars, op_clock, last>>
    /\ UNCHANGED otherThanLock

\* cache.py:80  hit_rate = self.hits / total if total > 0 else 0
LkStatsRate(i) ==
    /\ thr[i].pc = "C80"
    /\ thr' = [thr EXCEPT ![i].pc = "C82",
                          ![i].stats.hit_rate =
                              IF thr[i].t > 0
                              THEN [num |-> hits, den |-> thr[i].t, is_int |-> FALSE]
                              ELSE NoRate]
    /\ UNCHANGED <<cacheVars, op_clock, last>>
    /\ UNCHANGED otherThanLock

\* cache.py:82-83  "size": len(self.cache), "max_size": self.cache.maxsize
LkStatsSize(i) ==
    /\ thr[i].pc = "C82"
    /\ thr' = [thr EXCEPT ![i].pc = "C84", ![i].stats.size = Len(cache),
                          ![i].stats.max_size = max_size]
    /\ UNCHANGED <<cacheVars, op_clock, last>>
    /\ UNCHANGED otherThanLock

\* cache.py:84  "hits": self.hits
LkStatsHits(i) ==
    /\ thr[i].pc = "C84"
    /\ thr' = [thr EXCEPT ![i].pc = "C85", ![i].stats.hits = hits]
    /\ UNCHANGED <<cacheVars, op_clock, last>>
    /\ UNCHANGED otherThanLock

\* cache.py:85-88  "misses": self.misses; return the dictionary
LkStatsReturn(i) ==
    /\ thr[i].pc = "C85"
    /\ LkReturn(i, None, None, [thr[i].stats EXCEPT !.misses = misses])
    /\ UNCHANGED cacheVars

\* cache.py:97  return len(self.cache)
LkSize(i) ==
    /\ thr[i].pc = "C97"
    /\ LkReturn(i, None, None, [NoStats EXCEPT !.size = URLCache_size(Self)])
    /\ UNCHANGED cacheVars

NextLock ==
    \/ \E i \in Threads, op \in Methods, key \in LockKeys, value \in LockValues :
          LkCall(i, op, key, value)
    \/ \E i \in Threads : LkAcquire(i)
    \/ \E i \in Threads : LkGetTest(i)
    \/ \E i \in Threads : LkGetHit(i)
    \/ \E i \in Threads : LkGetReturn(i)
    \/ \E i \in Threads : LkGetMiss(i)
    \/ \E i \in Threads : LkSet(i)
    \/ \E i \in Threads : LkInvalidate(i)
    \/ \E i \in Threads : LkClearEntries(i)
    \/ \E i \in Threads : LkClearHits(i)
    \/ \E i \in Threads : LkClearMisses(i)
    \/ \E i \in Threads : LkStatsTotal(i)
    \/ \E i \in Threads : LkStatsRate(i)
    \/ \E i \in Threads : LkStatsSize(i)
    \/ \E i \in Threads : LkStatsHits(i)
    \/ \E i \in Threads : LkStatsReturn(i)
    \/ \E i \in Threads : LkSize(i)

SpecLock == InitCache /\ [][NextLock]_vars

----------------------------------------------------------------------------
(* validate_custom_code applied to one custom_code after another *)

SampleChars == {"a", "B", "7", "-", "e_acute"}

RECURSIVE StringsUpTo(_)
StringsUpTo(n) ==
    IF n = 0 THEN {<<>>}
    ELSE LET shorter == StringsUpTo(n - 1) IN
         shorter \cup {Append(v, ch) : v \in {w \in shorter : Len(w) = n - 1}, ch \in SampleChars}

Repeat(ch, n) == [i \in 1..n |-> ch]

\* strings around the upper length limit
LongStrings ==
    {Repeat(ch, n) \o tail : ch \in {"a", "Z"}, n \in 16..21, tail \in {<<>>, <<"9">>, <<"_">>}}

\* the reserved words in lower case, in upper case, capitalised, with one more
\* character and with the last one missing
ReservedVariants ==
    UNION {{w,
            [i \in 1..Len(w) |-> upper_char(w[i])],
            [i \in 1..Len(w) |-> IF i = 1 THEN upper_char(w[i]) ELSE w[i]],
            Append(w, "s"),
            SubSeq(w, 1, Len(w) - 1)} : w \in reserved}

ValidateInputs ==
    StringsUpTo(MaxStrLen) \cup LongStrings \cup ReservedVariants \cup {Promo, NoneStr}

Validate(v) ==
    /\ last' = [op |-> "validate", present |-> FALSE, queried |-> FALSE, stats |-> NoStats, key |-> v, ret |-> None, exc |-> None,
                status |-> validate_custom_code(v)]
    /\ UNCHANGED <<cacheVars, last_access, op_clock, storeVars, hist, rateVars, thr>>

NextValidate == \E v \in ValidateInputs : Validate(v)

SpecValidate == Init /\ [][NextValidate]_vars

----------------------------------------------------------------------------
(* generate_short_code against a store that holds some codes already *)

\* the symbols random.choices draws from here
DrawChars == {characters[j] : j \in 1..MaxDraw}

\* random.choices(characters, k=SHORT_CODE_LENGTH), the symbols before the last
\* MaxVary positions being the first one
DrawSpace ==
    {[k \in 1..SHORT_CODE_LENGTH |->
         IF k <= SHORT_CODE_LENGTH - MaxVary THEN characters[1]
         ELSE tail[k - (SHORT_CODE_LENGTH - MaxVary)]] : tail \in [1..MaxVary -> DrawChars]}

RowsOf(codes) ==
    LET RECURSIVE rows(_)
        rows(S) == IF S = {} THEN <<>>
                   ELSE LET c == CHOOSE x \in S : TRUE IN
                        <<[short_code |-> c, original_url |-> URL1, is_custom |-> FALSE]>>
                            \o rows(S \ {c})
    IN  rows(codes)

InitGen ==
    /\ cache = <<>>
    /\ hits = 0
    /\ misses = 0
    /\ max_size = 1
    /\ last_access = [k \in CacheKeys |-> 0]
    /\ op_clock = 0
    /\ last = NoOp
    /\ \E taken \in SUBSET (GenPool \cup {Promo}) : urls = RowsOf(taken)
    /\ hist = NoHist
    /\ InitRateIdle

\* main.py:209  code = "".join(random.choices(characters, k=SHORT_CODE_LENGTH))
GenDrawCode(i, code) ==
    /\ thr[i].pc \in {"idle", "G209"}
    /\ thr' = [thr EXCEPT ![i] = [Idle EXCEPT !.pc = "G211", !.code = code,
                                              !.clean = thr[i].pc = "G209"]]
    /\ last' = NoOp
    /\ UNCHANGED <<cacheVars, last_access, op_clock, storeVars, hist, rateVars>>

GenDraw(i) == \E code \in DrawSpace : GenDrawCode(i, code)

\* main.py:211-212  if not code_exists(code): return code   (else draw again)
GenCheck(i) ==
    /\ thr[i].pc = "G211"
    /\ IF ~code_exists(urls, thr[i].code)
       THEN /\ thr' = [thr EXCEPT ![i].pc = "idle"]
            /\ last' = [op |-> "generate", present |-> FALSE, queried |-> FALSE, stats |-> NoStats, key |-> thr[i].code, ret |-> None,
                        exc |-> None, status |-> None]
       ELSE /\ thr' = [thr EXCEPT ![i].pc = "G209"]
            /\ last' = NoOp
    /\ UNCHANGED <<cacheVars, last_access, op_clock, storeVars, hist, rateVars>>

NextGen ==
    \/ GenDraw(1)
    \/ GenCheck(1)

SpecGen == InitGen /\ [][NextGen]_vars

\* the store may also hold every code there is to draw
InitGenAny ==
    /\ cache = <<>>
    /\ hits = 0
    /\ misses = 0
    /\ max_size = 1
    /\ last_access = [k \in CacheKeys |-> 0]
    /\ op_clock = 0
    /\ last = NoOp
    /\ \E taken \in (SUBSET (GenPool \cup {Promo})) \cup {DrawSpace} : urls = RowsOf(taken)
    /\ hist = NoHist
    /\ InitRateIdle

\* the loop of main.py:208-212 keeps running, and random.choices draws every code
\* again and again
FairGen ==
    /\ WF_vars(GenCheck(1))
    /\ \A code \in DrawSpace : SF_vars(GenDrawCode(1, code))

SpecGenLive == InitGenAny /\ [][NextGen]_vars /\ FairGen

----------------------------------------------------------------------------
(* Cache and store under one-at-a-time requests *)

\* every cache entry agrees with the store
CacheAgreesWithStore ==
    \A i \in 1..Len(cache) :
        IF cache[i][2] = NOT_FOUND
        THEN ~code_exists(urls, cache[i][1])
        ELSE code_exists(urls, cache[i][1]) /\ cache[i][2] = select_url(urls, cache[i][1])

\* what Resolve returned is what the store holds now (Resolve leaves the store alone)
ResolveReturnsStored ==
    last.op = "resolve" =>
        /\ last.exc = None
        /\ last.ret = select_url(urls, last.key)
        /\ (last.status = "404") = ~code_exists(urls, last.key)

\* C1: under non-overlapping Resolve, shorten, delete and cache-clear requests (LRU
\* evictions included) every cached URL is the stored URL of its code, a cached
\* NOT_FOUND marker belongs to a code without a row, and Resolve returns the stored
\* URL, or not-found exactly when there is no row.
C1_CacheConsistent == CacheAgreesWithStore /\ ResolveReturnsStored

\* a Resolve returned the URL of a code whose NOT_FOUND marker a creation had
\* invalidated, and one reported not-found for a code whose cached URL a deletion
\* had invalidated
C1_Witness ==
    /\ last.op = "resolve"
    /\ last.ret = None
    /\ last.key \in hist.pos_then_deleted
    /\ hist.neg_then_created # {}

----------------------------------------------------------------------------
(* Cache and store under concurrent requests (SpecConc) *)

\* a lookup that returns from the cache, begun while no shorten_url or delete_url
\* call is in progress
FreshHit(i) ==
    /\ \E code \in Keys : GouGet(i, code)
    /\ last'.op = "resolve"
    /\ ~WriterInFlight

\* a lookup that returns after its store query, no shorten_url or delete_url call
\* having been in progress since it began
FreshMiss(i) == GouSet(i) /\ thr[i].clean

\* C2: a get_original_url call that begins after the invalidate of every committed
\* creation and deletion has completed returns what the store holds for the code;
\* no entry written by an older lookup that read the store before the commit is
\* served.
C2_InvalidationObserved ==
    [][\A i \in Threads :
          (FreshHit(i) \/ FreshMiss(i)) => last'.ret = select_url(urls, last'.key)]_vars

\* the custom code of the request is the code of a row for another URL
TakenByAnother(i) ==
    /\ Truthy(thr[i].custom_code)
    /\ code_exists(urls, thr[i].custom_code)
    /\ select_url(urls, thr[i].custom_code) # thr[i].url

\* C9: a shorten request whose custom code is taken by a row for another URL ends
\* with 409, not 500, and changes neither the store nor the cache, whether the
\* existence check or the INSERT finds the collision.
C9_ConflictIs409 ==
    [][\A i \in Threads :
          ((ShCustom(i) \/ ShInsert(i)) /\ TakenByAnother(i)) =>
              /\ last'.status = "409"
              /\ urls' = urls
              /\ cache' = cache]_vars

\* no two rows carry the same original URL
OneCodePerURL ==
    \A m, n \in 1..Len(urls) :
        urls[m].original_url = urls[n].original_url => m = n

\* a shorten request for a URL that has a row returns the code of that row, with
\* or without a custom code, and leaves the store and the cache as they were
StoredURLReturnsItsCode ==
    [][\A i \in Threads, url \in URLs, custom_code \in CustomInputs :
          (/\ Truthy(get_existing_code(urls, url))
           /\ last'.op = "shorten"
           /\ ShExisting(i, url, custom_code)) =>
              /\ last'.key = get_existing_code(urls, url)
              /\ urls' = urls
              /\ cache' = cache]_vars

\* C28: after any sequence or interleaving of shorten requests the store holds at
\* most one short code per original URL, a request for a stored URL returning the
\* existing code without inserting a row or touching the cache.
C28_OneCodePerURL == []OneCodePerURL /\ StoredURLReturnsItsCode

----------------------------------------------------------------------------
(* Requests through the middleware (SpecHttp) *)

\* C21: a request to the health endpoint never reaches check_rate_limit: it is
\* served with 200 whatever the list of its client holds, and it leaves the list
\* of every client, the cache and the store as they were.
C21_HealthBypassesLimiter ==
    [][(op_clock' # op_clock /\ last'.op = "/health") =>
          /\ last'.status = "200"
          /\ rl' = NoCheck
          /\ rate_limit_tracker' = rate_limit_tracker
          /\ cache' = cache /\ hits' = hits /\ misses' = misses
          /\ urls' = urls]_vars

\* the client of the latest request has a full list of times inside the window
OverLimit ==
    /\ thr[1].ip \in IPs
    /\ Len(rate_limit_tracker[thr[1].ip]) >= RATE_LIMIT_REQUESTS
    /\ \A k \in 1..Len(rate_limit_tracker[thr[1].ip]) :
          now - rate_limit_tracker[thr[1].ip][k] < Window

\* a health request of a client that is over its limit was served
C21_Witness ==
    /\ last.op = "/health"
    /\ last.status = "200"
    /\ rl = NoCheck
    /\ OverLimit

\* C22: every request other than health goes through check_rate_limit first, and
\* one that is rejected is answered with 429 and the retry_after of the check
\* without its handler running: cache entries, hits, misses and rows are unchanged.
C22_RejectedBeforeHandler ==
    [][(op_clock' # op_clock /\ last'.op \in {"/info", "/shorten", "/delete"}) =>
          /\ rl'.ip = thr'[1].ip
          /\ rl'.at = now
          /\ (last'.status = "429") <=> ~rl'.allowed
          /\ ~rl'.allowed =>
                /\ rl'.retry_after >= 1
                /\ cache' = cache /\ hits' = hits /\ misses' = misses
                /\ urls' = urls]_vars

\* a lookup of a cached code that has a row was rejected with 429
C22_Witness ==
    /\ last.op = "/info"
    /\ last.status = "429"
    /\ ~rl.allowed
    /\ lru_contains(cache, last.key)
    /\ code_exists(urls, last.key)

----------------------------------------------------------------------------
(* The rate limiter under one-at-a-time calls (SpecRate) *)

\* the admitted requests of the client that are less than a window old at time t
LiveAdmitted(ip, t) == SelectSeq(admitted[ip], LAMBDA a : t - a < Window)

\* every admitted request of the client on record is less than a window old
AllLive(ip, t) == LiveAdmitted(ip, t) = admitted[ip]

Min(S) == CHOOSE m \in S : \A x \in S : m <= x

FirstChecksAdmitted(ip) ==
    (AllLive(ip, now) /\ Len(admitted[ip]) < RATE_LIMIT_REQUESTS) => rl'.allowed

FurtherCheckRejected(ip) ==
    Len(LiveAdmitted(ip, now)) >= RATE_LIMIT_REQUESTS =>
        ~rl'.allowed /\ rl'.exc = None /\ rl'.retry_after > 0

\* C5: with a limit L >= 1, a client's check is admitted while fewer than L of its
\* admitted requests are on record and all of them are less than a window old (so
\* the first L checks of a new client are admitted, and so is a check made once all
\* its requests are more than a window old); a check made while L admitted requests
\* are less than a window old is rejected with retry_after > 0.
C5_WindowAdmission ==
    [][\A ip \in IPs : Check(ip) => FirstChecksAdmitted(ip) /\ FurtherCheckRejected(ip)]_vars

\* a client that was rejected at the largest limit is admitted again after its
\* requests left the window (retried: it had been rejected since its last admission)
C5_Witness ==
    /\ rl.ip \in IPs
    /\ rl.allowed
    /\ rl.retried
    /\ RATE_LIMIT_REQUESTS = MaxLimit
    /\ rate_limit_tracker[rl.ip] = <<now>>
    /\ admitted[rl.ip] = <<now>>

RetryAfterValue(ip) ==
    ~rl'.allowed =>
        /\ rl'.retry_after >= 1
        /\ rl'.retry_after =
              (Window - (now - Min(Range(LiveAdmitted(ip, now)))) + TicksPerSecond)
                  \div TicksPerSecond

RetrySucceeds(ip) == now \in retry_at[ip] => rl'.allowed

\* C7: a rejection at time now reports retry_after >= 1, the integer part of
\* RATE_LIMIT_WINDOW - (now - oldest request in the window) + 1, and a check of the
\* client at now + retry_after, none of its checks having been admitted in between,
\* is admitted.
C7_RetryAfter ==
    [][\A ip \in IPs : Check(ip) => RetryAfterValue(ip) /\ RetrySucceeds(ip)]_vars

\* a check made at the instant a rejection announced was admitted
C7_Witness ==
    /\ rl.allowed
    /\ rl.retried
    /\ RATE_LIMIT_WINDOW = MaxWindow

----------------------------------------------------------------------------
(* The rate limiter under concurrent calls (SpecRateConc) *)

\* no client's list holds more than RATE_LIMIT_REQUESTS request times
NoOverAdmission ==
    \A ip \in IPs : Len(rate_limit_tracker[ip]) <= RATE_LIMIT_REQUESTS

\* the time of every admitted request that is still inside the window is in the
\* client's list
NoAdmissionLost ==
    \A ip \in IPs : \A k \in 1..Len(admitted[ip]) :
        now - admitted[ip][k] < Window =>
            \E j \in 1..Len(rate_limit_tracker[ip]) :
                rate_limit_tracker[ip][j] = admitted[ip][k]

\* the list of client ip after a check, without the time the check appended
CountedAfter(ip) ==
    IF rl'.allowed
    THEN SubSeq(rate_limit_tracker'[ip], 1, Len(rate_limit_tracker'[ip]) - 1)
    ELSE rate_limit_tracker'[ip]

\* C26: a check at time now drops exactly the times older than now - window: a
\* recorded time t stays counted if and only if now - t <= window, so a request
\* admitted exactly one window ago still counts.
C26_PurgeKeepsWindowInclusive ==
    [][\A ip \in IPs :
          (rl'.ip = ip /\ Check(ip)) =>
              CountedAfter(ip) =
                  SelectSeq(rate_limit_tracker[ip], LAMBDA t : now - t <= Window)]_vars

\* C27: a rejected check records nothing: the client's list is its purged list,
\* with the same oldest time, and the lists of the other clients are as they were;
\* an admitted check appends its time to the purged list.
C27_RejectedNotRecorded ==
    [][\A ip \in IPs :
          (rl'.ip = ip /\ Check(ip)) =>
              LET kept == SelectSeq(rate_limit_tracker[ip], LAMBDA t : now - t < Window) IN
              /\ \A other \in IPs \ {ip} :
                    rate_limit_tracker'[other] = rate_limit_tracker[other]
              /\ rl'.allowed => rate_limit_tracker'[ip] = Append(kept, now)
              /\ ~rl'.allowed =>
                    /\ rate_limit_tracker'[ip] = kept
                    /\ now \notin Range(kept) => now \notin Range(rate_limit_tracker'[ip])]_vars

\* a client was rejected at an instant later than every time in its list, another
\* client having requests recorded
C27_Witness ==
    /\ rl.ip \in IPs
    /\ ~rl.allowed
    /\ rl.exc = None
    /\ Len(rate_limit_tracker[rl.ip]) >= 1
    /\ \A k \in 1..Len(rate_limit_tracker[rl.ip]) : rate_limit_tracker[rl.ip][k] < rl.at
    /\ \E other \in IPs \ {rl.ip} : Len(rate_limit_tracker[other]) >= 1

\* C20: after any sequence of check_rate_limit calls run one at a time with a limit
\* of at least 1, the list of every client holds at most RATE_LIMIT_REQUESTS times,
\* in non-decreasing order (the first is the oldest).
C20_WindowBounded ==
    \A ip \in IPs :
        LET times == rate_limit_tracker[ip] IN
        /\ Len(times) <= RATE_LIMIT_REQUESTS
        /\ \A m, n \in 1..Len(times) : m < n => times[m] <= times[n]

\* a client whose list is full, with times of two instants, was rejected
C20_Witness ==
    /\ RATE_LIMIT_REQUESTS = MaxLimit
    /\ ~rl.allowed
    /\ rl.ip \in IPs
    /\ Len(rate_limit_tracker[rl.ip]) = RATE_LIMIT_REQUESTS
    /\ rate_limit_tracker[rl.ip][1] < rate_limit_tracker[rl.ip][RATE_LIMIT_REQUESTS]

\* C6: under any interleaving of check_rate_limit calls for one client, the purge,
\* the comparison with the limit and the append act as one step: the client's list
\* never holds more than RATE_LIMIT_REQUESTS times and no admitted request's time
\* is lost from it.
C6_AtomicCheck == NoOverAdmission /\ NoAdmissionLost

\* a lookup that found its code in the cache ran no SELECT and answered with
\* what the cache held
HitRunsNoQuery ==
    [][\A code \in Keys :
          (/\ lru_contains(cache, code)
           /\ last'.op = "resolve"
           /\ Resolve(code)) =>
              /\ ~last'.queried
              /\ last'.ret = IF lru_value(cache, code) = NOT_FOUND THEN None
                             ELSE lru_value(cache, code)]_vars

\* while a code stays in the cache, exactly one SELECT has been run for it
OneQueryWhileCached ==
    \A code \in Keys :
        hist.queries[code] = IF lru_contains(cache, code) THEN 1 ELSE 0

\* lookups of a code that is in no row report not-found
AbsentReportsNotFound ==
    (last.op = "resolve" /\ ~code_exists(urls, last.key)) =>
        (last.ret = None /\ last.status = "404")

\* C18: when the store lookup inside a Resolve fails, the caller gets an error and
\* not a not-found answer, and the entries of the cache are as before: neither a
\* NOT_FOUND marker nor a URL is stored for the code.
C18_StoreFailureNotCached ==
    [][\A code \in Keys :
          (/\ ~lru_contains(cache, code)
           /\ last'.op = "resolve_store_down"
           /\ ResolveStoreDown(code)) =>
              /\ last'.exc # None
              /\ last'.status \notin {"404", "200"}
              /\ cache' = cache]_vars

\* a lookup failed at the store for a code that has a row, other codes being cached
C18_Witness ==
    /\ last.op = "resolve_store_down"
    /\ last.exc # None
    /\ code_exists(urls, last.key)
    /\ ~lru_contains(cache, last.key)
    /\ Len(cache) >= 1

\* C23: when recording the click fails during the redirect of a code that has a
\* row (the rows here never expire), the redirect still answers 307 with the
\* stored original URL and no error reaches the caller.
C23_ClickFailureSwallowed ==
    last.op = "redirect_click_failed" =>
        /\ last.status = "307"
        /\ last.ret # None
        /\ \E k \in 1..Len(urls) :
              urls[k].short_code = last.key /\ urls[k].original_url = last.ret
        /\ last.exc = None

\* a redirect whose click was not recorded answered 307, two codes being stored
C23_Witness ==
    /\ last.op = "redirect_click_failed"
    /\ last.status = "307"
    /\ last.ret \in URLs
    /\ Len(urls) >= 2

\* C19: a redirect queries the store for the URL only when the cache does not hold
\* the code, and then the cache holds it; a redirect of a code the cache holds is
\* a hit (hits grows by one) and runs no query.
C19_RedirectThroughCache ==
    [][\A code \in Keys :
          (last'.op = "redirect" /\ Redirect(code)) =>
              IF lru_contains(cache, code)
              THEN hits' = hits + 1 /\ ~last'.queried
              ELSE last'.queried /\ lru_contains(cache', code)]_vars

\* C11: a lookup that finds its code in the cache, with a URL or with the NOT_FOUND
\* marker, runs no store query; so while a code without a row stays in the cache,
\* exactly one query has been run for it, and every lookup of it reports not-found.
C11_CachedLookupRunsNoQuery ==
    HitRunsNoQuery /\ []OneQueryWhileCached /\ []AbsentReportsNotFound

\* three lookups of one code without a row and nothing else: one miss with its
\* query, then hits on the marker
C11_Witness ==
    /\ last.op = "resolve"
    /\ ~last.queried
    /\ last.status = "404"
    /\ hist.absent = 1
    /\ hist.found >= 2
    /\ hist.found + hist.absent = op_clock
    /\ ~hist.cleared
    /\ hist.queries[last.key] = 1

----------------------------------------------------------------------------
(* generate_short_code (SpecGen) *)

\* C8: generate_short_code returns only strings of exactly 6 symbols of the 62
\* letters and digits, and never a code that a row of the store carries.
C8_GeneratedCodeFree ==
    last.op = "generate" =>
        /\ Len(last.key) = 6
        /\ Cardinality(Range(characters)) = 62
        /\ \A k \in 1..Len(last.key) : last.key[k] \in Range(characters)
        /\ \A k \in 1..Len(urls) : urls[k].short_code # last.key

\* a code was returned after a candidate that the store holds had been discarded
C8_Witness ==
    /\ last.op = "generate"
    /\ thr[1].pc = "idle"
    /\ thr[1].clean
    /\ Len(urls) > 1

\* C17: a call of generate_short_code ends: with a free code when there is one
\* (the draws being fair), and with the KeyspaceExhausted error after an excessive
\* run of attempts when the store holds every candidate.
C17_GeneratorStops ==
    (thr[1].pc # "idle") ~> (thr[1].pc = "idle")

----------------------------------------------------------------------------
(* validate_custom_code (SpecValidate) *)

\* C10: a string is accepted exactly when its length is between 3 and 20, all its
\* characters are letters or digits and its lower-cased form is no reserved word.
C10_ValidateCustom ==
    (last.op = "validate" /\ last.key # NoneStr) =>
        ((last.status = "ok") <=>
            /\ Len(last.key) >= 3
            /\ Len(last.key) <= 20
            /\ \A k \in 1..Len(last.key) :
                  last.key[k] \in Range(characters) \cup OtherLetters
            /\ lower(last.key) \notin reserved)

----------------------------------------------------------------------------
(* Any configuration (SpecAnyConfig) *)

\* C16: for every capacity, limit and window from 0 up, no call of get, set,
\* invalidate, clear, stats, size or check_rate_limit ends in an exception.
C16_NothingRaises == last.exc = None /\ rl.exc = None

----------------------------------------------------------------------------
(* URLCache under interleaved callers (SpecLock) *)

\* the (size, hits, misses) and the rate a finished stats call returned are those
\* of the object as it was when the call took the lock
StatsIsSnapshot ==
    \A i \in Threads :
        (thr[i].op = "stats" /\ thr[i].pc = "idle") =>
            thr[i].stats = URLCache_stats(thr[i].snap)

\* while a call is inside the lock nobody else changes the object: a clear in
\* progress is seen by no other call
OneInsideLock ==
    \A i, j \in Threads :
        (thr[i].pc \in LockedPcs /\ thr[j].pc \in LockedPcs) => i = j

\* C14: under any interleaving of threads calling get, set, invalidate, clear and
\* stats, a stats result is the (size, hits, misses) of one state of the cache, and
\* no call runs between the statements of a clear.
C14_ClearAndStatsAtomic == StatsIsSnapshot /\ OneInsideLock

\* a stats call returned counted gets while a clear called by another thread was
\* waiting for the lock
C14_Witness ==
    \E i, j \in Threads :
        /\ thr[i].op = "stats" /\ thr[i].pc = "idle"
        /\ thr[i].stats.misses >= 1
        /\ thr[j].op = "clear" /\ thr[j].pc = "acquire"

----------------------------------------------------------------------------
(* The cache alone (SpecCache) *)

\* the entries of c other than key, in their recency order
OtherEntries(c, key) == SelectSeq(c, LAMBDA en : en[1] # key)

\* C24: set on a key that is in the cache replaces its value and makes it the most
\* recently used entry, with the same number of entries, no entry evicted and the
\* others in the order they had, also when the cache is full.
C24_SetExistingKeepsEntries ==
    [][\A key \in CacheKeys, value \in CacheValues :
          (/\ lru_contains(cache, key)
           /\ last'.op = "set"
           /\ Set(key, value)) =>
              /\ Len(cache') = Len(cache)
              /\ cache'[Len(cache')] = <<key, value>>
              /\ OtherEntries(cache', key) = OtherEntries(cache, key)
              /\ hits' = hits /\ misses' = misses]_vars

\* a set on a key that was in a full cache of more than one entry
C24_Witness ==
    /\ last.op = "set"
    /\ last.present
    /\ last.exc = None
    /\ max_size >= 2
    /\ Len(cache) = max_size

\* C25: invalidate removes its key when it is there and changes nothing when it is
\* not; hits, misses, the other entries and their order stay as they were.
C25_InvalidateRemovesOnlyKey ==
    [][\A key \in CacheKeys :
          (last'.op = "invalidate" /\ Invalidate(key)) =>
              /\ ~lru_contains(cache', key)
              /\ IF lru_contains(cache, key) THEN Len(cache') = Len(cache) - 1
                                             ELSE cache' = cache
              /\ OtherEntries(cache', key) = OtherEntries(cache, key)
              /\ hits' = hits /\ misses' = misses /\ max_size' = max_size]_vars

\* an invalidate removed a key that was there, another entry and a counted hit
\* remaining
C25_Witness ==
    /\ last.op = "invalidate"
    /\ last.present
    /\ Len(cache) >= 1
    /\ hits >= 1

\* C15: what get returns for a key that is in the cache differs from what it
\* returns for a key that is not, whatever value set stored (None included), and a
\* get counted as a hit returns a value the caller takes for found.
C15_GetTellsPresence ==
    [][\A key \in CacheKeys :
          Get(key) =>
              /\ (last'.ret # None) <=> lru_contains(cache, key)
              /\ (hits' = hits + 1) => (last'.ret # None)]_vars

\* the reported rate is the quotient hits / (hits + misses), or 0 when no get has
\* been counted, and lies between 0 and 1
RateIsQuotient ==
    last.op = "stats" =>
        LET r == last.stats.hit_rate IN
        /\ last.stats.hits = hits /\ last.stats.misses = misses
        /\ r.den > 0
        /\ IF hits + misses > 0 THEN r.num * (hits + misses) = hits * r.den
                                ELSE r.num = 0
        /\ 0 <= r.num /\ r.num <= r.den

\* C13 as stated: the reported rate is hits / (hits + misses) within 0..1, and it
\* is 0 exactly when hits = 0 and misses = 0.
C13_HitRateZeroIffNoGets ==
    /\ RateIsQuotient
    /\ last.op = "stats" => ((last.stats.hit_rate.num = 0) <=> (hits = 0 /\ misses = 0))

\* C13 amended: the reported rate is hits / (hits + misses) within 0..1, it is 0
\* exactly when hits = 0, and it is 0 in particular when no get has been counted.
C13_HitRateZeroIffNoHits ==
    /\ RateIsQuotient
    /\ last.op = "stats" => ((last.stats.hit_rate.num = 0) <=> (hits = 0))
    /\ (last.op = "stats" /\ hits = 0 /\ misses = 0) => last.stats.hit_rate = NoRate

\* stats called with hits and misses both counted: a rate strictly between 0 and 1
C13_Witness ==
    /\ last.op = "stats"
    /\ hits >= 1
    /\ misses >= 1
    /\ last.stats.hit_rate.num > 0
    /\ last.stats.hit_rate.num < last.stats.hit_rate.den

CountersMatchGets == hits = hist.found /\ misses = hist.absent

CountersGrowBetweenClears ==
    [][~Clear => (hits' >= hits /\ misses' >= misses)]_vars

\* C12: hits is the number of get calls that found their key and misses the number
\* that did not, since construction or the most recent clear (so their sum is the
\* number of get calls of that period), and without a clear neither decreases.
C12_CountersCountGets == []CountersMatchGets /\ CountersGrowBetweenClears

\* a get that found its key and one that did not, after a clear
C12_Witness ==
    /\ last.op = "get"
    /\ hist.cleared
    /\ hits >= 1
    /\ misses >= 1
    /\ hits + misses < op_clock - 1

\* the keys that were set and then lost their entry to an eviction (Invalidate and
\* Clear reset last_access)
Evicted == {k \in CacheKeys : last_access[k] > 0 /\ ~lru_contains(cache, k)}

\* a Set of a key that is not in the cache, on a full cache
SetOnFull(key) ==
    /\ last'.op = "set" /\ last'.key = key /\ last'.exc = None
    /\ op_clock' = op_clock + 1
    /\ ~lru_contains(cache, key)
    /\ Len(cache) = max_size

EvictsLeastRecentlyAccessed(key) ==
    \E victim \in lru_keys(cache) :
        /\ \A k \in lru_keys(cache) : last_access[victim] <= last_access[k]
        /\ lru_keys(cache') = (lru_keys(cache) \ {victim}) \cup {key}
        /\ Len(cache') = Len(cache)
        /\ \A k \in lru_keys(cache) \ {victim} : lru_value(cache', k) = lru_value(cache, k)

\* C3: a Set that inserts a new key into a cache holding max_size entries removes
\* exactly one entry, the one whose most recent access (a Get that found it or a
\* Set of it) is the oldest, and keeps every other entry with its value.
C3_EvictsLRU == [][\A key \in CacheKeys : SetOnFull(key) => EvictsLeastRecentlyAccessed(key)]_vars

\* a Set evicted an entry after a Get had found one
C3_Witness ==
    /\ last.op = "set"
    /\ Len(cache) = max_size
    /\ Evicted # {}
    /\ hits > 0
    /\ \E k \in Evicted : \E j \in lru_keys(cache) \ {last.key} :
            last_access[k] < last_access[j]

\* C4: the cache never holds more than max_size entries, whatever Get, Set,
\* Invalidate and Clear calls were made.
C4_SizeBounded == Len(cache) <= max_size

\* the cache is full at the largest capacity and an entry has been evicted
C4_Witness ==
    /\ Len(cache) = max_size
    /\ max_size = MaxCap
    /\ Evicted # {}

====
